---------------------------- MODULE Spec2Model ----------------------------
(***************************************************************************)
(* Shape analysis along the spinal cord centerline                         *)
(* (scripts/msct_shape.py): properties2d, assign_AP_and_RL_diameter and    *)
(* compute_properties_along_centerline.                                    *)
(*                                                                         *)
(* Numbers are exact rationals <<n, d>> (d > 0, lowest terms); <<0, 0>> is *)
(* the float NaN.  Floating-point rounding is not modelled.                *)
(* The file is read with Python 2 semantics (it does not import division   *)
(* from __future__).  The temporary folder handling (lines 158-177) and    *)
(* the plotting branch for verbose == 2 (lines 272-291) are left out.      *)
(* Sequences are 1-based, the centerline index is 0-based as in the code.  *)
(***************************************************************************)
EXTENDS Integers, Sequences, FiniteSets, TLC

VARIABLES
    pc,                 \* position in compute_properties_along_centerline / driver
    fname_discs,        \* TRUE iff a disc label file was given
    smooth_factor,      \* smoothing factor in mm (0 = no smoothing)
    centerline_request, \* nz and the nurbs_pts_number asked of smooth_centerline
    number_of_points,   \* centerline.number_of_points
    index,              \* loop variable of the sampling loop
    current_patch,      \* the patch handed to properties2d (sequence of regions)
    resolution,         \* the resolution handed to properties2d
    sc_properties,      \* result of properties2d / assign_AP_and_RL_diameter
    properties,         \* the PropertySeries dictionary
    raw_properties,     \* history: properties as the sampling loop left it
    sampled,            \* history: centerline index of every appended entry
    warnings,           \* what the printed warnings name (z coordinate, ignored options)
    sorting_values,     \* distinct z_slice labels
    averaged_shape,     \* the OrderedDict of averaged series
    result,             \* what compute_properties_along_centerline returned
    exception,          \* name of the uncaught exception, "" when none
    cropper,            \* the ImageCropper object (cropping.py)
    run_log,            \* the commands the cropper handed to sct.run
    slice,              \* the Slice object (msct_gmseg_utils_NEW.py)
    set_args,           \* history: the arguments of the last Slice.set call
    current_z,          \* history: voxel z index of the centerline point being sampled
    coordinates_grid_image, \* history: where properties2d resampled the patch
    os_state,           \* working directory, temporary folder, remove_temp_files
    arguments,          \* the parsed command line of sct_crop_image
    point_inputs,       \* per centerline index: the patch and z index found there
    point_results,      \* per centerline index: what a worker computed for it
    im_level,           \* the level image handed to load_level, slice by slice
    list_slices_target  \* the Slice objects handed to load_level

\* history and environment of compute_properties_along_centerline
shapeExtra == <<current_z, coordinates_grid_image, os_state>>

\* the state of sct_crop_image main, of the per-point workers and of load_level
restVars == <<arguments, point_inputs, point_results, im_level, list_slices_target>>

\* the state outside compute_properties_along_centerline
otherVars == <<cropper, run_log, slice, set_args, restVars>>

vars == <<pc, resolution, fname_discs, smooth_factor, number_of_points, index, current_patch,
          sc_properties, properties, raw_properties, sampled, warnings,
          sorting_values, averaged_shape, result, exception, centerline_request,
          shapeExtra, otherVars>>

-----------------------------------------------------------------------------
(* Bounds of the model *)

MaxPoints == 3
MaxRegions == 2
\* size of the image handed to the cropper, in voxels along x and y
MaxX == 3
MaxY == 2

\* samples of each axis of the symmetry grid that are followed
MaxGrid == 2

\* slices of the level image handed to load_level
MaxLevelSlices == 3

-----------------------------------------------------------------------------
(* Exact arithmetic *)

Abs(n) == IF n < 0 THEN -n ELSE n

RECURSIVE GCD(_, _)
GCD(a, b) == IF b = 0 THEN a ELSE GCD(b, a % b)

NaN == <<0, 0>>

Rat(n, d) ==
    IF d = 0 THEN NaN
    ELSE LET g == GCD(Abs(n), Abs(d))
             s == IF d < 0 THEN -1 ELSE 1
         IN  <<(s * n) \div g, (s * d) \div g>>

Num(n) == <<n, 1>>

IsNaN(a) == a[2] = 0

RatAdd(a, b) ==
    IF IsNaN(a) \/ IsNaN(b) THEN NaN
    ELSE Rat(a[1] * b[2] + b[1] * a[2], a[2] * b[2])

RatMul(a, b) ==
    IF IsNaN(a) \/ IsNaN(b) THEN NaN
    ELSE Rat(a[1] * b[1], a[2] * b[2])

\* numpy float division: x / 0 is nan or inf with a warning, never an exception;
\* only 0 / 0 (nan) arises in this model
RatDiv(a, b) ==
    IF IsNaN(a) \/ IsNaN(b) \/ b[1] = 0 THEN NaN
    ELSE Rat(a[1] * b[2], a[2] * b[1])

RatLeq(a, b) == ~IsNaN(a) /\ ~IsNaN(b) /\ a[1] * b[2] <= b[1] * a[2]

RECURSIVE SumSeq(_)
SumSeq(s) == IF s = <<>> THEN Num(0) ELSE RatAdd(Head(s), SumSeq(Tail(s)))


-----------------------------------------------------------------------------
(* Patches and regions.                                                    *)
(* A patch is given by what skimage.measure.label / regionprops find in    *)
(* it: the sequence of its connected regions in label (raster traversal)   *)
(* order.  A region carries the skimage measurements the code reads.       *)
(* orientation is held in units of pi/180 rad.  left_image and right_image *)
(* are the pixel values, at the same few positions, of the left half and   *)
(* of the mirrored right half of the square resampled around the region's  *)
(* centroid; every other pixel of the square is background.  Both are all  *)
(* background when the centroid lies in a hole wider than the grid (an     *)
(* annulus whose hole contains the whole grid).                           *)

None == [isNone |-> TRUE]

NoResolution == <<>>

RegionWithSquare(a, axes, o, left, right) ==
    [area |-> a,
     equivalent_diameter |-> Num(a + 1),
     major_axis_length |-> Num(axes[1]),
     minor_axis_length |-> Num(axes[2]),
     orientation |-> o,
     eccentricity |-> Rat(axes[1] - axes[2], axes[1] + 1),
     solidity |-> Rat(a, a + 1),
     left_image |-> left, right_image |-> right]

\* a region whose resampled square is symmetric
Region(a, axes, o) == RegionWithSquare(a, axes, o, <<1, 1>>, <<1, 1>>)

property_list ==
    <<"area", "equivalent_diameter", "AP_diameter", "RL_diameter",
      "ratio_minor_major", "eccentricity", "solidity", "orientation", "symmetry">>

companion_list ==
    <<"incremental_length", "distance_from_C1", "vertebral_level", "z_slice">>

-----------------------------------------------------------------------------
(* properties2d *)

\* np.argsort(areas): the index sequences that put areas in ascending order.
\* The default sort kind is not stable, so equal areas may come out in any
\* order; indices are 1-based here.
argsort(areas) ==
    LET n == Len(areas)
    IN  {ix \in [1..n -> 1..n] :
            /\ \A i, j \in 1..n : i # j => ix[i] # ix[j]
            /\ \A i, j \in 1..n : i < j => areas[ix[i]] <= areas[ix[j]]}

\* a plausible slip: the division left unguarded (numpy floats give nan)
ratio_minor_major_unguarded(minor, major) == RatDiv(minor, major)

\* try: minor / major   except ZeroDivisionError: 0.0   (Python floats)
ratio_minor_major(minor, major) ==
    IF major[1] = 0 THEN Num(0) ELSE RatDiv(minor, major)

\* resolution_grid = 0.25
resolution_grid == Rat(1, 4)

\* lines 62-64: 8.0 / resolution[0], or int(2.4 * major_axis_length) in pixels
size_grid(r, res) ==
    IF res # NoResolution
    THEN RatDiv(Num(8), res[1])
    ELSE Num((12 * r.major_axis_length[1]) \div (5 * r.major_axis_length[2]))

\* len(x_grid) for np.mgrid[-size_grid:size_grid:resolution_grid]:
\* ceil(2 * size_grid / resolution_grid) samples per axis
grid_points(sg) ==
    LET q == RatDiv(RatMul(Num(2), sg), resolution_grid)
    IN  -((-q[1]) \div q[2])

\* size_half = square_image.shape[1] / 2 (integer division)
size_half(n) == n \div 2

RECURSIVE SumWhere(_, _)
\* np.sum(left[right == 1])
SumWhere(left, right) ==
    IF left = <<>> THEN 0
    ELSE (IF Head(right) = 1 THEN Head(left) ELSE 0) + SumWhere(Tail(left), Tail(right))

RECURSIVE SumPixels(_)
SumPixels(img) == IF img = <<>> THEN 0 ELSE Head(img) + SumPixels(Tail(img))

\* np.sum(left[right == 1]) * 2.0 / (np.sum(left) + np.sum(right)), numpy floats
dice_symmetry(r) ==
    RatDiv(Num(SumWhere(r.left_image, r.right_image) * 2),
           Num(SumPixels(r.left_image) + SumPixels(r.right_image)))

\* y0, x0 = sc_region.centroid: the region sits on the patch centre
centroid(r) == <<Num(4), Num(4)>>

\* math.cos and math.sin of the orientations met here (named by their
\* degrees), exactly: the pair <<a, b>> stands for a + b * sqrt(1/2)
cos(o) == IF o = 0 THEN <<1, 0>> ELSE IF o \in {90, -90} THEN <<0, 0>> ELSE <<0, 1>>

sin(o) ==
    IF o = 0 THEN <<0, 0>>
    ELSE IF o = 90 THEN <<1, 0>>
    ELSE IF o = -90 THEN <<-1, 0>>
    ELSE IF o = 45 THEN <<0, 1>> ELSE <<0, -1>>

\* c + t * g for a rational c, a trigonometric value t and a rational g, as
\* the pair of rational coefficients of 1 and sqrt(1/2)
Affine(c, t, g) == <<RatAdd(c, RatMul(Num(t[1]), g)), RatMul(Num(t[2]), g)>>

\* lines 77-78: the offsets zip(x_grid.ravel(), y_grid.ravel()) of
\* np.mgrid[-size_grid:size_grid:resolution_grid], the first MaxGrid samples
\* of each axis
coordinates_grid(sg) ==
    LET m == IF grid_points(sg) < MaxGrid THEN grid_points(sg) ELSE MaxGrid
        at(k) == RatAdd(RatMul(Num(-1), sg), RatMul(Num(k), resolution_grid))
    IN  [i \in 1..(m * m) |-> <<at((i - 1) \div m), at((i - 1) % m)>>]

\* a rotation of the offsets about the centroid
grid_to_image_rotated(r, grid) ==
    LET y0 == centroid(r)[1]
        x0 == centroid(r)[2]
        minus(t) == <<-t[1], -t[2]>>
        plus(a, b) == <<RatAdd(a[1], b[1]), RatAdd(a[2], b[2])>>
    IN  [i \in 1..Len(grid) |->
            [offset |-> grid[i],
             position |->
                <<plus(Affine(x0, cos(r.orientation), grid[i][1]),
                       Affine(Num(0), minus(sin(r.orientation)), grid[i][2])),
                  plus(Affine(y0, sin(r.orientation), grid[i][1]),
                       Affine(Num(0), cos(r.orientation), grid[i][2]))>>]]

\* line 79: [x0 + cos(orientation) * gx, y0 - sin(orientation) * gy] for
\* every offset (gx, gy), kept next to its offset
grid_to_image(r, grid) ==
    LET y0 == centroid(r)[1]
        x0 == centroid(r)[2]
        minus(t) == <<-t[1], -t[2]>>
    IN  [i \in 1..Len(grid) |->
            [offset |-> grid[i],
             position |-> <<Affine(x0, cos(r.orientation), grid[i][1]),
                            Affine(y0, minus(sin(r.orientation)), grid[i][2])>>]]

\* map_coordinates refuses the coordinate array of an empty grid
RuntimeError == [raised |-> "RuntimeError"]

\* a plausible slip: the lengths scaled by the y resolution
region_properties_ry(r, res) ==
    LET scaled == res # NoResolution
        rx == IF scaled THEN res[1] ELSE Num(1)
        ry == IF scaled THEN res[2] ELSE Num(1)
    IN  [area |-> RatMul(Num(r.area), RatMul(rx, ry)),
         equivalent_diameter |-> RatMul(r.equivalent_diameter, ry),
         minor_axis_length |-> RatMul(r.minor_axis_length, ry),
         major_axis_length |-> RatMul(r.major_axis_length, ry),
         orientation |-> Num(r.orientation),
         ratio_minor_major |-> ratio_minor_major(r.minor_axis_length, r.major_axis_length),
         eccentricity |-> r.eccentricity,
         solidity |-> r.solidity,
         symmetry |-> dice_symmetry(r)]

\* the dictionary built for the selected region
region_properties(r, res) ==
    LET scaled == res # NoResolution
        rx == IF scaled THEN res[1] ELSE Num(1)
        ry == IF scaled THEN res[2] ELSE Num(1)
    IN  [area |-> RatMul(Num(r.area), RatMul(rx, ry)),
         equivalent_diameter |-> RatMul(r.equivalent_diameter, rx),
         minor_axis_length |-> RatMul(r.minor_axis_length, rx),
         major_axis_length |-> RatMul(r.major_axis_length, rx),
         orientation |-> Num(r.orientation),
         ratio_minor_major |-> ratio_minor_major(r.minor_axis_length, r.major_axis_length),
         eccentricity |-> r.eccentricity,
         solidity |-> r.solidity,
         symmetry |-> dice_symmetry(r)]

\* a plausible slip: the first index of the sorted order taken
sc_region_index_first(ix) == ix[1]

\* the region index picked from an argsort outcome: regions[ix[-1]]
sc_region_index(ix) == ix[Len(ix)]

\* properties2d(image, resolution=res), for the argsort outcome ix
properties2d(image, res, ix) ==
    IF Len(image) # 0
    THEN IF grid_points(size_grid(image[sc_region_index(ix)], res)) = 0
         THEN RuntimeError
         ELSE region_properties(image[sc_region_index(ix)], res)
    ELSE None

areas_of(image) == [k \in 1..Len(image) |-> image[k].area]

-----------------------------------------------------------------------------
(* assign_AP_and_RL_diameter *)

TypeError == [raised |-> "TypeError"]

\* a plausible slip: the bounds taken inclusive
InRLRange_closed(o) == RatLeq(Num(-45), o) /\ RatLeq(o, Num(45))

\* -45.0 < properties['orientation'] < 45.0
InRLRange(o) ==
    /\ RatLeq(Num(-45), o) /\ o # Num(-45)
    /\ RatLeq(o, Num(45)) /\ o # Num(45)

\* a plausible slip: the axis lengths renamed instead of copied
AddDiameters_renaming(p, rl, ap) ==
    [k \in (DOMAIN p \ {"major_axis_length", "minor_axis_length"})
            \cup {"RL_diameter", "AP_diameter"} |->
        IF k = "RL_diameter" THEN rl ELSE IF k = "AP_diameter" THEN ap ELSE p[k]]

\* properties['RL_diameter'] = rl; properties['AP_diameter'] = ap
AddDiameters(p, rl, ap) ==
    [k \in DOMAIN p \cup {"RL_diameter", "AP_diameter"} |->
        IF k = "RL_diameter" THEN rl ELSE IF k = "AP_diameter" THEN ap ELSE p[k]]

\* a plausible slip: the major axis always labelled right-left
assign_AP_and_RL_diameter_no_swap(p) ==
    IF p = None THEN TypeError
    ELSE AddDiameters(p, p.major_axis_length, p.minor_axis_length)

\* subscripting None raises TypeError
assign_AP_and_RL_diameter(p) ==
    IF p = None THEN TypeError
    ELSE IF InRLRange(p.orientation)
         THEN AddDiameters(p, p.major_axis_length, p.minor_axis_length)
         ELSE AddDiameters(p, p.minor_axis_length, p.major_axis_length)

-----------------------------------------------------------------------------
(* Smoothing: scipy.signal.hann and scipy.signal.convolve(..., mode='same') *)

\* scipy.signal.hann(M), symmetric: w[n] = 0.5 - 0.5 cos(2 pi n / (M - 1)),
\* n = 0 .. M-1; ones(1) for M = 1; an empty array for M < 1.  M is the
\* float the caller passes; tabulated for M below 1 and for the whole
\* lengths whose weights are rational.
hann(M) ==
    CASE M[1] < M[2] -> <<>>
      [] M = Num(1) -> <<Num(1)>>
      [] M = Num(2) -> <<Num(0), Num(0)>>
      [] M = Num(3) -> <<Num(0), Num(1), Num(0)>>
      [] M = Num(4) -> <<Num(0), Rat(3, 4), Rat(3, 4), Num(0)>>
      [] M = Num(5) -> <<Num(0), Rat(1, 2), Num(1), Rat(1, 2), Num(0)>>
      [] M = Num(7) -> <<Num(0), Rat(1, 4), Rat(3, 4), Num(1), Rat(3, 4), Rat(1, 4), Num(0)>>

\* np.mean(centerline.progressive_length) of a centerline of n points: the
\* mean spacing in mm, nan (mean of an empty list) for a centerline of no point
mean_progressive_length(n) == IF n = 0 THEN NaN ELSE Num(1)

\* smooth_factor / np.mean(centerline.progressive_length): no rounding, no clamp
window_length(factor, n) == RatDiv(factor, mean_progressive_length(n))

\* hann(nan) fails in np.arange, and convolve refuses an empty window:
\* both raise ValueError
smoothing_raises(factor, n) ==
    \/ IsNaN(window_length(factor, n))
    \/ hann(window_length(factor, n)) = <<>>

RECURSIVE SumOver(_, _, _)
\* sum of f[j] for j = lo .. hi
SumOver(f, lo, hi) ==
    IF lo > hi THEN Num(0) ELSE RatAdd(f[lo], SumOver(f, lo + 1, hi))

\* a plausible slip: the full convolution, of Len(x) + Len(w) - 1 samples
convolve_full(x, w) ==
    LET N == Len(x)
        M == Len(w)
        term(i) == [j \in 1..N |->
                      IF i - j + 1 >= 1 /\ i - j + 1 <= M
                      THEN RatMul(x[j], w[i - j + 1]) ELSE Num(0)]
    IN  [i \in 1..(N + M - 1) |-> SumOver(term(i), 1, N)]

\* scipy.signal.convolve(x, w, mode='same'): the full convolution, cut to the
\* length of x and centred: out[i] = full[i + (M - 1) div 2] (0-based)
convolve_same(x, w) ==
    LET N == Len(x)
        M == Len(w)
        s == (M - 1) \div 2
        term(i) == [j \in 1..N |->
                      IF i + s - j + 1 >= 1 /\ i + s - j + 1 <= M
                      THEN RatMul(x[j], w[i + s - j + 1]) ELSE Num(0)]
    IN  [i \in 1..N |-> SumOver(term(i), 1, N)]

\* convolve(series, window, mode='same') / np.sum(window)
smooth(series, window) ==
    LET c == convolve_same(series, window)
    IN  [i \in 1..Len(c) |-> RatDiv(c[i], SumSeq(window))]

IsProperty(name) == \E k \in 1..Len(property_list) : property_list[k] = name

\* a plausible slip: the convolution applied whatever smooth_factor is
smooth_properties_always(props, factor, n) ==
    [name \in DOMAIN props |->
        IF IsProperty(name) THEN smooth(props[name], hann(Num(4))) ELSE props[name]]

\* lines 265-269: every property series is smoothed when smooth_factor != 0
smooth_properties(props, factor, n) ==
    IF factor # Num(0)
    THEN [name \in DOMAIN props |->
            IF IsProperty(name)
            THEN smooth(props[name], hann(window_length(factor, n)))
            ELSE props[name]]
    ELSE props

-----------------------------------------------------------------------------
(* Re-aggregation per z_slice label *)

Contains(s, v) == \E k \in 1..Len(s) : s[k] = v

RECURSIVE InsertSorted(_, _)
InsertSorted(s, v) ==
    IF s = <<>> THEN <<v>>
    ELSE IF v <= Head(s) THEN <<v>> \o s
    ELSE <<Head(s)>> \o InsertSorted(Tail(s), v)

RECURSIVE distinct_sorted(_)
\* a plausible slip: the distinct labels in numeric order (np.unique)
distinct_sorted(labels) ==
    IF labels = <<>> THEN <<>>
    ELSE LET rest == distinct_sorted(Tail(labels))
         IN  IF Contains(rest, Head(labels)) THEN rest
             ELSE InsertSorted(rest, Head(labels))

RECURSIVE distinct_from(_, _)
distinct_from(labels, acc) ==
    IF labels = <<>> THEN acc
    ELSE distinct_from(Tail(labels),
                       IF Contains(acc, Head(labels)) THEN acc
                       ELSE Append(acc, Head(labels)))

\* lines 295-298: for label in z_slice: if label not in sorting_values: append
distinct_labels(labels) == distinct_from(labels, <<>>)

RECURSIVE items_first_run(_, _, _, _)
\* a plausible slip: only the first contiguous run of the label is collected
items_first_run(series, labels, label, started) ==
    IF series = <<>> THEN <<>>
    ELSE IF Head(labels) = label
         THEN <<Head(series)>> \o items_first_run(Tail(series), Tail(labels), label, TRUE)
         ELSE IF started THEN <<>>
              ELSE items_first_run(Tail(series), Tail(labels), label, FALSE)

items_contiguous(series, labels, label) == items_first_run(series, labels, label, FALSE)

RECURSIVE items_of_label(_, _, _)
\* [item for i, item in enumerate(series) if z_slice[i] == label]
items_of_label(series, labels, label) ==
    IF series = <<>> THEN <<>>
    ELSE (IF Head(labels) = label THEN <<Head(series)>> ELSE <<>>)
         \o items_of_label(Tail(series), Tail(labels), label)

\* np.mean of a list: nan for the empty list
mean(items) == RatDiv(SumSeq(items), Num(Len(items)))

\* a plausible slip: every key of properties averaged, z_slice included
average_properties_with_z_slice(props, labels) ==
    [k \in 1..(Len(property_list) + 1) |->
        IF k <= Len(property_list)
        THEN <<property_list[k],
               [l \in 1..Len(labels) |->
                   mean(items_of_label(props[property_list[k]], props["z_slice"], labels[l]))]>>
        ELSE <<"z_slice", [l \in 1..Len(labels) |-> Num(labels[l])]>>]

\* lines 299-306: the OrderedDict as its <<key, values>> items in insertion order
average_properties(props, labels) ==
    [k \in 1..Len(property_list) |->
        <<property_list[k],
          [l \in 1..Len(labels) |->
              mean(items_of_label(props[property_list[k]], props["z_slice"], labels[l]))]>>]

-----------------------------------------------------------------------------
(* Inputs *)

AreaSet == {1, 2}
AxesSet == {<<0, 0>>, <<2, 1>>, <<2, 2>>}
OrientationSet == {-90, -45, 0, 45, 90}

\* the regions a patch may hold (minor_axis_length <= major_axis_length)
Regions == {Region(a, axes, o) : a \in AreaSet, axes \in AxesSet, o \in OrientationSet}

RECURSIVE SeqsUpTo(_, _)
SeqsUpTo(S, n) ==
    IF n = 0 THEN {<<>>}
    ELSE LET shorter == SeqsUpTo(S, n - 1)
         IN  shorter \cup {Append(q, e) : q \in {t \in shorter : Len(t) = n - 1}, e \in S}

\* regions that differ in their resampled square only
SymmetryRegions ==
    {RegionWithSquare(2, <<2, 1>>, 0, left, right) :
        left \in [1..2 -> {0, 1}], right \in [1..2 -> {0, 1}]}

\* the patches handed to properties2d when it is exercised on its own
Patches == SeqsUpTo(Regions, MaxRegions) \cup {<<r>> : r \in SymmetryRegions}

Resolutions == {NoResolution, <<Rat(1, 2), Rat(1, 2)>>, <<Rat(1, 2), Rat(1, 4)>>}

\* the patches extract_perpendicular_square yields along the centerline:
\* all background, or one region
LoopPatches ==
    {<<>>} \cup {<<Region(2, <<2, 1>>, 0)>>, <<Region(1, <<2, 2>>, 90)>>}

\* voxel z index of a centerline point: transfo_phys2pix(points[index])[0][2]
ZSlices == {5, 6, 7}

\* smooth_factor in mm: none, below the spacing, and whole multiples of it
SmoothFactors == {Num(0), Rat(1, 2), Num(2), Num(4), Num(5)}

\* resolution = 0.5: properties2d(patch_zero, [resolution, resolution])
patch_resolution == <<Rat(1, 2), Rat(1, 2)>>

\* number_of_points = 5 * nz, the number of points asked of smooth_centerline
nurbs_pts_number(nz) == 5 * nz

\* the number of slices of the segmentation
NzSet == {1, 2}

\* the centerline's per-point data, read at index
incremental_length(i) == Num(i)
dist_points(i) == Num(10 - i)
l_points(i) == i \div 2

-----------------------------------------------------------------------------
(* compute_properties_along_centerline *)

\* nothing returned (yet)
NoResult == <<>>

\* no cropper at work
NoCropper ==
    /\ cropper = <<>>
    /\ run_log = <<>>

\* no Slice at work
NoSlice ==
    /\ slice = <<>>
    /\ set_args = <<>>

\* sct_crop_image main, the per-point workers and load_level not at work
NoRest ==
    /\ arguments = <<>>
    /\ point_inputs = <<>>
    /\ point_results = <<>>
    /\ im_level = <<>>
    /\ list_slices_target = <<>>

NoOthers == NoCropper /\ NoSlice /\ NoRest

\* compute_properties_along_centerline not called
NoShape ==
    /\ fname_discs = FALSE
    /\ smooth_factor = Num(0)
    /\ number_of_points = 0
    /\ index = 0
    /\ current_patch = <<>>
    /\ resolution = NoResolution
    /\ sc_properties = None
    /\ sampled = <<>>
    /\ sorting_values = <<>>
    /\ averaged_shape = <<>>
    /\ result = NoResult
    /\ centerline_request = <<>>
    /\ current_z = <<>>
    /\ coordinates_grid_image = <<>>
    /\ os_state = <<>>

\* the process and the file system at the call: the working directory, and
\* no temporary folder yet
at_call(dir, remove_temp_files) ==
    [cwd |-> dir, called_from |-> dir, curdir |-> "", path_tmp |-> "",
     path_tmp_exists |-> FALSE, remove_temp_files |-> remove_temp_files]

\* lines 158-166: path_tmp = sct.tmp_create(...); curdir = os.getcwd();
\* os.chdir(path_tmp)
go_to_tmp(os) ==
    [os EXCEPT !.path_tmp = "/tmp/compute_properties_along_centerline",
               !.path_tmp_exists = TRUE,
               !.curdir = os.cwd,
               !.cwd = "/tmp/compute_properties_along_centerline"]

\* a plausible slip: the temporary folder removed whatever remove_temp_files
leave_tmp_always_removing(os) == [os EXCEPT !.cwd = os.curdir, !.path_tmp_exists = FALSE]

\* lines 309-311: os.chdir(curdir); if remove_temp_files: sct.rmtree(path_tmp)
leave_tmp(os) ==
    [os EXCEPT !.cwd = os.curdir,
               !.path_tmp_exists = IF os.remove_temp_files # 0 THEN FALSE
                                   ELSE os.path_tmp_exists]

empty_properties ==
    [name \in {property_list[k] : k \in 1..Len(property_list)}
              \cup {companion_list[k] : k \in 1..Len(companion_list)} |-> <<>>]

Init ==
    /\ pc = "loop"
    /\ fname_discs \in BOOLEAN
    /\ smooth_factor \in SmoothFactors
    /\ \E nz \in NzSet :
         centerline_request = [nz |-> nz, nurbs_pts_number |-> nurbs_pts_number(nz)]
    /\ number_of_points \in 0..MaxPoints
    /\ index = 0
    /\ current_patch = <<>>
    /\ resolution = patch_resolution
    /\ sc_properties = None
    /\ properties = empty_properties
    /\ raw_properties = empty_properties
    /\ sampled = <<>>
    /\ warnings = <<>>
    /\ sorting_values = <<>>
    /\ averaged_shape = <<>>
    /\ current_z = <<>>
    /\ coordinates_grid_image = <<>>
    /\ os_state = go_to_tmp(at_call("/home", 1))
    /\ result = NoResult
    /\ exception = ""
    /\ NoOthers

\* a plausible slip: the disc series filled only when discs are given, the
\* others only when they are not
append_point_swapped(props, p, i, z, discs) ==
    [name \in DOMAIN props |->
        IF name = "incremental_length" THEN Append(props[name], incremental_length(i))
        ELSE IF name = "distance_from_C1"
             THEN (IF discs THEN props[name] ELSE Append(props[name], dist_points(i)))
        ELSE IF name = "vertebral_level"
             THEN (IF discs THEN Append(props[name], l_points(i)) ELSE props[name])
        ELSE IF name = "z_slice" THEN Append(props[name], z)
        ELSE Append(props[name], p[name])]

\* a plausible slip: the disc series read one centerline point behind
append_point_lagging(props, p, i, z, discs) ==
    [name \in DOMAIN props |->
        IF name = "incremental_length" THEN Append(props[name], incremental_length(i))
        ELSE IF name = "distance_from_C1"
             THEN (IF discs THEN Append(props[name], dist_points(i - 1)) ELSE props[name])
        ELSE IF name = "vertebral_level"
             THEN (IF discs THEN Append(props[name], l_points(i - 1)) ELSE props[name])
        ELSE IF name = "z_slice" THEN Append(props[name], z)
        ELSE Append(props[name], p[name])]

\* lines 244-250: the appends of one successfully sampled point
append_point(props, p, i, z, discs) ==
    [name \in DOMAIN props |->
        IF name = "incremental_length" THEN Append(props[name], incremental_length(i))
        ELSE IF name = "distance_from_C1"
             THEN (IF discs THEN Append(props[name], dist_points(i)) ELSE props[name])
        ELSE IF name = "vertebral_level"
             THEN (IF discs THEN Append(props[name], l_points(i)) ELSE props[name])
        ELSE IF name = "z_slice" THEN Append(props[name], z)
        ELSE Append(props[name], p[name])]

\* for index in range(centerline.number_of_points): the index after i
next_index(i) == i + 1

\* lines 220-255: one iteration of the sampling loop
SampleIteration ==
    /\ pc = "loop"
    /\ index < number_of_points
    /\ \E patch \in LoopPatches, z \in ZSlices :
         \E ix \in argsort(areas_of(patch)) :
           LET extracted == properties2d(patch, resolution, ix)
               assigned == IF extracted = RuntimeError THEN RuntimeError
                           ELSE assign_AP_and_RL_diameter(extracted)
           IN  /\ current_patch' = patch
               /\ IF assigned \in {TypeError, RuntimeError}
                  THEN /\ sc_properties' = IF assigned = TypeError THEN extracted
                                           ELSE sc_properties
                       /\ pc' = "raised"
                       /\ exception' = assigned.raised
                       /\ UNCHANGED <<index, properties, sampled, warnings, current_z>>
                  ELSE /\ sc_properties' = assigned
                       /\ current_z' = z
                       /\ IF assigned # None
                          THEN /\ properties' =
                                     append_point(properties, assigned, index, z, fname_discs)
                               /\ sampled' = Append(sampled, index)
                               /\ UNCHANGED warnings
                          ELSE /\ warnings' = Append(warnings, z)
                               /\ UNCHANGED <<properties, sampled>>
                       /\ index' = next_index(index)
                       /\ UNCHANGED <<pc, exception>>
    /\ UNCHANGED <<result, centerline_request, otherVars>>
    /\ UNCHANGED <<coordinates_grid_image, os_state>>
    /\ UNCHANGED <<resolution, fname_discs, smooth_factor, number_of_points, raw_properties,
                   sorting_values, averaged_shape>>

\* the loop is exhausted
SampleDone ==
    /\ pc = "loop"
    /\ index >= number_of_points
    /\ pc' = "smooth"
    /\ raw_properties' = properties
    /\ UNCHANGED <<result, centerline_request, otherVars>>
    /\ UNCHANGED shapeExtra
    /\ UNCHANGED <<resolution, fname_discs, smooth_factor, number_of_points, index, current_patch,
                   sc_properties, properties, sampled, warnings, sorting_values,
                   averaged_shape, exception>>

\* lines 265-269
Smooth ==
    /\ pc = "smooth"
    /\ IF smooth_factor # Num(0) /\ smoothing_raises(smooth_factor, number_of_points)
       THEN /\ pc' = "raised"
            /\ exception' = "ValueError"
            /\ UNCHANGED properties
       ELSE /\ properties' =
                  smooth_properties(properties, smooth_factor, number_of_points)
            /\ pc' = "average"
            /\ UNCHANGED exception
    /\ UNCHANGED <<result, centerline_request, otherVars>>
    /\ UNCHANGED shapeExtra
    /\ UNCHANGED <<resolution, fname_discs, smooth_factor, number_of_points, index, current_patch,
                   sc_properties, raw_properties, sampled, warnings, sorting_values,
                   averaged_shape>>

\* lines 295-306
Average ==
    /\ pc = "average"
    /\ sorting_values' = distinct_labels(properties["z_slice"])
    /\ averaged_shape' = average_properties(properties, sorting_values')
    /\ pc' = "return"
    /\ UNCHANGED <<result, centerline_request, otherVars>>
    /\ UNCHANGED shapeExtra
    /\ UNCHANGED <<resolution, fname_discs, smooth_factor, number_of_points, index, current_patch,
                   sc_properties, properties, raw_properties, sampled, warnings, exception>>

\* lines 309-313
Return ==
    /\ pc = "return"
    /\ result' = <<property_list, averaged_shape>>
    /\ os_state' = leave_tmp(os_state)
    /\ pc' = "done"
    /\ UNCHANGED <<centerline_request, otherVars>>
    /\ UNCHANGED <<current_z, coordinates_grid_image>>
    /\ UNCHANGED <<resolution, fname_discs, smooth_factor, number_of_points, index, current_patch,
                   sc_properties, properties, raw_properties, sampled, warnings,
                   sorting_values, averaged_shape, exception>>

Next == SampleIteration \/ SampleDone \/ Smooth \/ Average \/ Return

Spec == Init /\ [][Next]_vars

-----------------------------------------------------------------------------
(* The call from its first line, from either of two working directories    *)
(* and with and without remove_temp_files                                  *)

InitTmp ==
    /\ pc = "call"
    /\ os_state \in {at_call(dir, flag) : dir \in {"/home", "/data"}, flag \in {0, 1}}
    /\ fname_discs = FALSE
    /\ smooth_factor \in {Num(0), Num(5)}
    /\ centerline_request = [nz |-> 1, nurbs_pts_number |-> nurbs_pts_number(1)]
    /\ number_of_points \in 0..MaxPoints
    /\ index = 0
    /\ current_patch = <<>>
    /\ resolution = patch_resolution
    /\ sc_properties = None
    /\ properties = empty_properties
    /\ raw_properties = empty_properties
    /\ sampled = <<>>
    /\ warnings = <<>>
    /\ sorting_values = <<>>
    /\ averaged_shape = <<>>
    /\ current_z = <<>>
    /\ coordinates_grid_image = <<>>
    /\ result = NoResult
    /\ exception = ""
    /\ NoOthers

\* lines 158-166: the temporary folder is created and entered
GoToTmp ==
    /\ pc = "call"
    /\ os_state' = go_to_tmp(os_state)
    /\ pc' = "loop"
    /\ UNCHANGED <<result, centerline_request, otherVars>>
    /\ UNCHANGED <<current_z, coordinates_grid_image>>
    /\ UNCHANGED <<resolution, fname_discs, smooth_factor, number_of_points, index, current_patch,
                   sc_properties, properties, raw_properties, sampled, warnings,
                   sorting_values, averaged_shape, exception>>

NextTmp == GoToTmp \/ SampleIteration \/ SampleDone \/ Smooth \/ Average \/ Return

SpecTmp == InitTmp /\ [][NextTmp]_vars

-----------------------------------------------------------------------------
(* properties2d and assign_AP_and_RL_diameter called on their own, on every *)
(* patch of Patches and with and without a resolution                      *)

InitCalls ==
    /\ pc = "properties2d"
    /\ current_patch \in Patches
    /\ resolution \in Resolutions
    /\ fname_discs = FALSE
    /\ smooth_factor = Num(0)
    /\ number_of_points = 0
    /\ index = 0
    /\ sc_properties = None
    /\ properties = empty_properties
    /\ raw_properties = empty_properties
    /\ sampled = <<>>
    /\ warnings = <<>>
    /\ sorting_values = <<>>
    /\ averaged_shape = <<>>
    /\ result = NoResult
    /\ centerline_request = <<>>
    /\ current_z = <<>>
    /\ coordinates_grid_image = <<>>
    /\ os_state = <<>>
    /\ exception = ""
    /\ NoOthers

\* sc_properties = properties2d(image, resolution)
CallProperties2d ==
    /\ pc = "properties2d"
    /\ \E ix \in argsort(areas_of(current_patch)) :
         LET extracted == properties2d(current_patch, resolution, ix)
         IN  /\ IF extracted = RuntimeError
                THEN /\ pc' = "raised"
                     /\ exception' = "RuntimeError"
                     /\ UNCHANGED sc_properties
                ELSE /\ pc' = "assign"
                     /\ sc_properties' = extracted
                     /\ UNCHANGED exception
             /\ coordinates_grid_image' =
                   IF Len(current_patch) = 0 THEN coordinates_grid_image
                   ELSE LET r == current_patch[sc_region_index(ix)]
                        IN  grid_to_image(r, coordinates_grid(size_grid(r, resolution)))
    /\ UNCHANGED <<result, centerline_request, otherVars>>
    /\ UNCHANGED <<current_z, os_state>>
    /\ UNCHANGED <<resolution, fname_discs, smooth_factor, number_of_points, index,
                   current_patch, properties, raw_properties, sampled, warnings,
                   sorting_values, averaged_shape>>

\* sc_properties = assign_AP_and_RL_diameter(sc_properties)
CallAssign ==
    /\ pc = "assign"
    /\ LET assigned == assign_AP_and_RL_diameter(sc_properties)
       IN  IF assigned = TypeError
           THEN /\ pc' = "raised"
                /\ exception' = "TypeError"
                /\ UNCHANGED sc_properties
           ELSE /\ pc' = "assigned"
                /\ sc_properties' = assigned
                /\ UNCHANGED exception
    /\ UNCHANGED <<result, centerline_request, otherVars>>
    /\ UNCHANGED shapeExtra
    /\ UNCHANGED <<resolution, fname_discs, smooth_factor, number_of_points, index,
                   current_patch, properties, raw_properties, sampled, warnings,
                   sorting_values, averaged_shape>>

NextCalls == CallProperties2d \/ CallAssign

SpecCalls == InitCalls /\ [][NextCalls]_vars

-----------------------------------------------------------------------------
(* Properties of the re-aggregation (lines 295-306)                        *)

Averaged == pc \in {"return", "done"}

PropertyNames == {property_list[k] : k \in 1..Len(property_list)}

\* the indices (1-based) of the series entries whose z_slice is label
IndicesOf(labels, label) == {i \in 1..Len(labels) : labels[i] = label}

FirstIndexOf(labels, label) ==
    CHOOSE i \in IndicesOf(labels, label) : \A j \in IndicesOf(labels, label) : i <= j

RECURSIVE SumAt(_, _)
\* the sum of the entries of series at the indices of I
SumAt(series, I) ==
    IF I = {} THEN Num(0)
    ELSE LET i == CHOOSE j \in I : TRUE
         IN  RatAdd(series[i], SumAt(series, I \ {i}))

MeanAt(series, I) == RatDiv(SumAt(series, I), Num(Cardinality(I)))

\* C1: the AveragedShape has exactly one entry per distinct z_slice label, and
\* the entries follow the order in which the labels first appear in the
\* oversampled series, not the numeric order; z_slice [5,5,6,6,5,7] gives
\* the order [5,6,7].
C1_FirstSeenOrder ==
    /\ distinct_labels(<<5, 5, 6, 6, 5, 7>>) = <<5, 6, 7>>
    /\ Averaged =>
         LET z == properties["z_slice"]
             n == Len(sorting_values)
         IN  /\ {sorting_values[l] : l \in 1..n} = {z[i] : i \in 1..Len(z)}
             /\ n = Cardinality({z[i] : i \in 1..Len(z)})
             /\ \A a, b \in 1..n :
                  a < b => FirstIndexOf(z, sorting_values[a]) < FirstIndexOf(z, sorting_values[b])
             /\ Len(averaged_shape) = Len(property_list)
             /\ \A k \in 1..Len(averaged_shape) : Len(averaged_shape[k][2]) = n

\* a run ended whose labels first appear in the order 6, 5 and come back to 6
C1_Witness ==
    /\ pc = "done"
    /\ properties["z_slice"] = <<6, 5, 6>>
    /\ sorting_values = <<6, 5>>
    /\ Len(averaged_shape[1][2]) = 2

\* C2: for every property and every distinct label, the output value is the
\* arithmetic mean of exactly the entries of the property's series (as it
\* stands after the smoothing step) at the indices whose z_slice is that
\* label, non-contiguous ones included, and of no other entry.
C2_MeanPerLabel ==
    Averaged =>
        \A k \in 1..Len(averaged_shape) :
            /\ averaged_shape[k][1] = property_list[k]
            /\ \A l \in 1..Len(sorting_values) :
                 averaged_shape[k][2][l] =
                     MeanAt(properties[property_list[k]],
                            IndicesOf(properties["z_slice"], sorting_values[l]))

\* label 5 at the non-contiguous indices 1 and 3, whose smoothed areas differ
\* from each other: the area reported for label 5 is the mean of the two
C2_Witness ==
    /\ pc = "done"
    /\ smooth_factor = Num(4)
    /\ properties["z_slice"] = <<5, 6, 5>>
    /\ properties["area"][1] # properties["area"][3]
    /\ averaged_shape[1][2][1] =
           RatDiv(RatAdd(properties["area"][1], properties["area"][3]), Num(2))

\* C3: with smooth_factor 0 no series is convolved, and every AveragedShape
\* value is exactly the mean of the raw per-point values the sampling loop
\* appended for that z_slice label.
C3_NoSmoothing ==
    (smooth_factor = Num(0) /\ pc \in {"average", "return", "done"}) =>
        /\ properties = raw_properties
        /\ Averaged =>
             \A k \in 1..Len(averaged_shape) :
                 \A l \in 1..Len(sorting_values) :
                     averaged_shape[k][2][l] =
                         MeanAt(raw_properties[property_list[k]],
                                IndicesOf(raw_properties["z_slice"], sorting_values[l]))

\* an unsmoothed run over two points of the same slice with different areas
C3_Witness ==
    /\ pc = "done"
    /\ smooth_factor = Num(0)
    /\ raw_properties["z_slice"] = <<5, 5>>
    /\ raw_properties["area"] = <<Rat(1, 2), Rat(1, 4)>>
    /\ averaged_shape[1][2] = <<Rat(3, 8)>>

-----------------------------------------------------------------------------
(* Properties of the sampling loop (lines 217-255)                         *)

\* C4: an all-background patch makes the iteration append nothing to any
\* series, print one warning naming the z coordinate, and go on to the next
\* index.
C4_SkippedPointGoesOn ==
    [][(pc = "loop" /\ index < number_of_points /\ current_patch' = <<>>) =>
           /\ properties' = properties
           /\ Len(warnings') = Len(warnings) + 1
           /\ index' = index + 1
           /\ pc' = "loop"]_vars

\* C5: a centerline point without a foreground region raises no exception:
\* the run is not aborted because of it.
C5_MissingRegionNotFatal ==
    ~(pc = "raised" /\ current_patch = <<>>)

CoreNames == PropertyNames \cup {"incremental_length", "z_slice"}

DiscNames == {"distance_from_C1", "vertebral_level"}

\* C6 as stated: all thirteen sequences of the PropertySeries have the same
\* length, with or without disc landmarks.
C6_AllSeriesSameLength ==
    \A a, b \in DOMAIN properties : Len(properties[a]) = Len(properties[b])

\* C6 as amended: the nine property series, incremental_length and z_slice
\* always have the same length, the number of points sampled so far;
\* distance_from_C1 and vertebral_level have that length when disc landmarks
\* were supplied and stay empty when they were not.
C6_SeriesLengths ==
    /\ \A a \in CoreNames : Len(properties[a]) = Len(sampled)
    /\ \A a \in DiscNames :
         Len(properties[a]) = IF fname_discs THEN Len(sampled) ELSE 0

\* two points sampled without disc landmarks: the disc series are still empty
C6_Witness ==
    /\ pc = "loop"
    /\ ~fname_discs
    /\ index = 2
    /\ Len(properties["z_slice"]) = 2
    /\ Len(properties["area"]) = 2
    /\ Len(properties["distance_from_C1"]) = 0

-----------------------------------------------------------------------------
(* Properties of assign_AP_and_RL_diameter (lines 121-134)                 *)

Assigned == pc = "assigned"

\* -45 < o < 45 for the rational o, by cross-multiplication
StrictlyWithin45(o) == -45 * o[2] < o[1] /\ o[1] < 45 * o[2]

LabelledMajorRL(p) ==
    /\ p["RL_diameter"] = p["major_axis_length"]
    /\ p["AP_diameter"] = p["minor_axis_length"]

LabelledMinorRL(p) ==
    /\ p["RL_diameter"] = p["minor_axis_length"]
    /\ p["AP_diameter"] = p["major_axis_length"]

-----------------------------------------------------------------------------
(* Properties of properties2d (lines 39-118)                               *)

Extracted == pc = "assign" /\ sc_properties # None

MaxArea(image) ==
    CHOOSE a \in {image[k].area : k \in 1..Len(image)} :
        \A k \in 1..Len(image) : image[k].area <= a

\* the highest region index among the regions of maximum area
LastMaxIndex(image) ==
    CHOOSE k \in 1..Len(image) :
        /\ image[k].area = MaxArea(image)
        /\ \A j \in 1..Len(image) : image[j].area = MaxArea(image) => j <= k

ScaledBy(p, r, fa, fl) ==
    /\ p["area"] = Rat(r.area * fa[1], fa[2])
    /\ p["equivalent_diameter"] =
           Rat(r.equivalent_diameter[1] * fl[1], r.equivalent_diameter[2] * fl[2])
    /\ p["major_axis_length"] =
           Rat(r.major_axis_length[1] * fl[1], r.major_axis_length[2] * fl[2])
    /\ p["minor_axis_length"] =
           Rat(r.minor_axis_length[1] * fl[1], r.minor_axis_length[2] * fl[2])

\* the ratio of the pixel axis lengths of region r, 0 for a zero major axis
PixelRatio(p, r) ==
    IF r.major_axis_length[1] = 0
    THEN p["ratio_minor_major"] = Num(0)
    ELSE p["ratio_minor_major"][1] * r.major_axis_length[1] * r.minor_axis_length[2]
             = r.minor_axis_length[1] * p["ratio_minor_major"][2] * r.major_axis_length[2]

\* C11: with resolution (rx, ry) the reported area is the pixel area times
\* rx*ry and equivalent_diameter, major_axis_length and minor_axis_length are
\* the pixel values times rx only; without a resolution the four are the
\* pixel values; ratio_minor_major is the ratio of the pixel lengths either way.
C11_ResolutionScaling ==
    Extracted =>
        \E k \in 1..Len(current_patch) :
            LET r == current_patch[k]
            IN  /\ r.area = MaxArea(current_patch)
                /\ PixelRatio(sc_properties, r)
                /\ IF resolution = NoResolution
                   THEN ScaledBy(sc_properties, r, Num(1), Num(1))
                   ELSE ScaledBy(sc_properties, r,
                                 Rat(resolution[1][1] * resolution[2][1],
                                     resolution[1][2] * resolution[2][2]),
                                 resolution[1])

\* one region of area 2 and axes 2 and 1 measured at resolution (1/2, 1/4):
\* the area is 2/8, the lengths are halved
C11_Witness ==
    /\ Extracted
    /\ resolution = <<Rat(1, 2), Rat(1, 4)>>
    /\ Len(current_patch) = 1
    /\ current_patch[1].area = 2
    /\ current_patch[1].major_axis_length = Num(2)
    /\ sc_properties["area"] = Rat(1, 4)
    /\ sc_properties["major_axis_length"] = Num(1)
    /\ sc_properties["minor_axis_length"] = Rat(1, 2)
    /\ sc_properties["ratio_minor_major"] = Rat(1, 2)


\* the symmetry reported for region r is the Dice overlap of its two halves
IsDiceOf(sym, r) ==
    /\ ~IsNaN(sym)
    /\ sym[1] * (SumPixels(r.left_image) + SumPixels(r.right_image))
           = 2 * SumWhere(r.left_image, r.right_image) * sym[2]

\* C12: whenever properties2d returns properties, the two halves of the
\* resampled square have the same shape and the reported symmetry is the
\* Dice overlap 2*|left AND right| / (|left| + |right|) of the left half and
\* the mirrored right half: a defined number between 0 and 1, and 1 when
\* the two are equal.
C12_SymmetryIsDice ==
    Extracted =>
        \E k \in 1..Len(current_patch) :
            LET r == current_patch[k]
                n == grid_points(size_grid(r, resolution))
                sym == sc_properties["symmetry"]
            IN  /\ r.area = MaxArea(current_patch)
                /\ n - size_half(n) = size_half(n)
                /\ IsDiceOf(sym, r)
                /\ RatLeq(Num(0), sym) /\ RatLeq(sym, Num(1))
                /\ (r.left_image = r.right_image => sym = Num(1))


-----------------------------------------------------------------------------
(* Properties of the smoothing step (lines 265-269)                        *)

Smoothed == pc \in {"average", "return", "done"} /\ smooth_factor # Num(0)

\* C13: for every nonzero smooth_factor, after the smoothing step every
\* property series has as many samples as the sampling loop gave it, which
\* is the length of z_slice.
C13_SmoothingKeepsLength ==
    Smoothed =>
        \A k \in 1..Len(property_list) :
            /\ Len(properties[property_list[k]]) = Len(raw_properties[property_list[k]])
            /\ Len(properties[property_list[k]]) = Len(properties["z_slice"])

\* a window of 5 samples over series of 3: the areas changed, their number did not
C13_Witness ==
    /\ Smoothed
    /\ Len(hann(window_length(smooth_factor, number_of_points))) = 5
    /\ Len(raw_properties["area"]) = 3
    /\ properties["area"] # raw_properties["area"]
    /\ Len(properties["area"]) = 3


-----------------------------------------------------------------------------
(* Properties of the value returned (lines 142-150 and 295-313)            *)

Returned == pc = "done"

\* the nine property names, in the order of the returned list
NineProperties ==
    <<"area", "equivalent_diameter", "AP_diameter", "RL_diameter", "ratio_minor_major",
      "eccentricity", "solidity", "orientation", "symmetry">>

DistinctLabels(labels) == {labels[i] : i \in 1..Len(labels)}

\* C14: what is returned is the pair (property_list, averaged_shape):
\* property_list is the nine property names in their fixed order, the keys
\* of averaged_shape are the same names in the same order (no companion
\* series among them), and every value sequence has one entry per distinct
\* z_slice label.
C14_ReturnContract ==
    Returned =>
        /\ Len(result) = 2
        /\ result[1] = NineProperties
        /\ result[2] = averaged_shape
        /\ Len(result[2]) = Len(NineProperties)
        /\ \A k \in 1..Len(result[2]) :
             /\ result[2][k][1] = NineProperties[k]
             /\ Len(result[2][k][2]) = Cardinality(DistinctLabels(properties["z_slice"]))

\* three points over two slices: nine keys, two values under each
C14_Witness ==
    /\ Returned
    /\ properties["z_slice"] = <<6, 5, 6>>
    /\ Len(result[2]) = 9
    /\ result[2][9][1] = "symmetry"
    /\ Len(result[2][1][2]) = 2
    /\ Len(result[2][9][2]) = 2


\* C15: a centerline of zero points makes the function abort with an error:
\* it never gets to the averaging and returns nothing, neither a partial nor
\* an empty AveragedShape, whatever smooth_factor is, 0 included.
C15_EmptyCenterlineFatal ==
    number_of_points = 0 =>
        /\ pc \notin {"average", "return", "done"}
        /\ result = NoResult


-----------------------------------------------------------------------------
(* cropping.py: ImageCropper.crop, crop_from_mask_with_background and       *)
(* find_mask_boundaries, on a two-dimensional image of MaxX x MaxY voxels.  *)
(* Voxel indices are 0-based as in numpy; dimensions are numbered from 0    *)
(* on the command line and from 1 in the tuples of the model.  An optional  *)
(* argument is <<>> when it is None and <<value>> when it is given.         *)
(* shift, bmax, ref and mesh stay at their defaults and add nothing to the  *)
(* command.                                                                *)

NotGiven == <<>>
Given(x) == <<x>>

image_shape == <<MaxX, MaxY>>

Voxels == (0..(MaxX - 1)) \X (0..(MaxY - 1))

\* Image(self.input_filename): every voxel holds a value of its own, none 0
input_image ==
    [shape |-> image_shape, data |-> [v \in Voxels |-> 10 * v[1] + v[2] + 1]]

\* the binary masks of the image's shape
Masks == [Voxels -> {0, 1}]

SetMin(S) == CHOOSE m \in S : \A n \in S : m <= n
SetMax(S) == CHOOSE m \in S : \A n \in S : m >= n

\* numpy.nonzero(data)[d - 1]: the indices along dimension d of the non-zero voxels
nonzero(data, d) == {v[d] : v \in {u \in DOMAIN data : data[u] # 0}}

\* numpy min / max of an empty array
ValueError == [raised |-> "ValueError"]

\* lines 164-182
find_mask_boundaries(data) ==
    IF \A u \in DOMAIN data : data[u] = 0
    THEN ValueError
    ELSE [ind_start |-> [d \in 1..Len(image_shape) |-> SetMin(nonzero(data, d))],
          ind_end |-> [d \in 1..Len(image_shape) |-> SetMax(nonzero(data, d))],
          dim |-> [d \in 1..Len(image_shape) |-> d - 1]]


\* the external command isct_crop_image, whose options sct_crop_image.py
\* documents: a start or end value is a slice number, except that end 0
\* stands for the last slice and a negative end counts back from the last
\* slice; the slices start .. end of every listed dimension are kept
end_slice(e, size) ==
    IF e = 0 THEN size - 1
    ELSE IF e < 0 THEN size - 1 + e
    ELSE e

\* first and last slice kept along dimension d (1-based) of an image of shape sh
kept_from(d, start, dim) ==
    IF \E k \in 1..Len(dim) : dim[k] = d - 1
    THEN start[CHOOSE k \in 1..Len(dim) : dim[k] = d - 1]
    ELSE 0

kept_to(d, end, dim, sh) ==
    IF \E k \in 1..Len(dim) : dim[k] = d - 1
    THEN end_slice(end[CHOOSE k \in 1..Len(dim) : dim[k] = d - 1], sh[d])
    ELSE sh[d] - 1

isct_crop_image(img, start, end, dim) ==
    LET lo == [d \in 1..Len(img.shape) |-> kept_from(d, start, dim)]
        hi == [d \in 1..Len(img.shape) |-> kept_to(d, end, dim, img.shape)]
        sh == [d \in 1..Len(img.shape) |-> hi[d] - lo[d] + 1]
    IN  [shape |-> sh,
         data |-> [v \in (0..(sh[1] - 1)) \X (0..(sh[2] - 1)) |->
                      img.data[<<v[1] + lo[1], v[2] + lo[2]>>]]]

\* sct_maths.get_data_or_scalar(str(background), data_array): an array of the
\* shape of data_array filled with the scalar
get_data_or_scalar(scalar, data_array) == [v \in DOMAIN data_array |-> scalar]

ArrayMax(data) == SetMax({data[v] : v \in DOMAIN data})

\* lines 99-126: the image multiplied by the mask, plus the background times
\* (mask.max() - mask) when the background is not 0; the shape is the input's
crop_from_mask_with_background(img, data_mask, background) ==
    LET new_data == [v \in DOMAIN img.data |-> data_mask[v] * img.data[v]]
        data_background == get_data_or_scalar(background, img.data)
        data_mask_inv == [v \in DOMAIN data_mask |-> ArrayMax(data_mask) - data_mask[v]]
    IN  [shape |-> img.shape,
         data |-> IF background # 0
                  THEN [v \in DOMAIN new_data |->
                           new_data[v] + data_mask_inv[v] * data_background[v]]
                  ELSE new_data]

\* the ImageCropper as constructed
ImageCropper(mask, start, end, dim, background) ==
    [mask |-> mask, start |-> start, end |-> end, dim |-> dim,
     shift |-> NotGiven, background |-> background, bmax |-> FALSE,
     ref |-> NotGiven, mesh |-> NotGiven, cmd |-> NotGiven, result |-> NotGiven]

\* the background values of option -b
Backgrounds == {0, 7}

\* croppers given a mask, with or without a background and, each on its
\* own, with or without start and end arguments (which are then ignored)
MaskCroppers ==
    {ImageCropper(Given(m), s, e, NotGiven, b) :
        m \in Masks, s \in {NotGiven, Given(<<1, 1>>)}, e \in {NotGiven, Given(<<1, 1>>)},
        b \in {NotGiven} \cup {Given(x) : x \in Backgrounds}}

\* croppers given one dimension and the slice numbers to keep along it
SliceCroppers ==
    UNION {{ImageCropper(NotGiven, Given(<<s>>), Given(<<e>>), Given(<<d - 1>>), NotGiven) :
               s \in 0..(image_shape[d] - 1), e \in 0..(image_shape[d] - 1)} :
           d \in 1..Len(image_shape)}

Croppers == MaskCroppers \cup {c \in SliceCroppers : c.start[1][1] <= c.end[1][1]}


\* lines 57-66: the options appended to the command, in this order
option(flag, arg) == IF arg = NotGiven THEN <<>> ELSE <<<<flag, arg[1]>>>>

\* line 47: the command before any option
base_command == <<<<"isct_crop_image", "-i", "-o">>>>

command(c) ==
    base_command
        \o option("-start", c.start) \o option("-end", c.end)
        \o option("-dim", c.dim) \o option("-shift", c.shift)
        \o option("-b", c.background) \o (IF c.bmax THEN <<<<"-bmax">>>> ELSE <<>>)
        \o option("-ref", c.ref) \o option("-mesh", c.mesh)

\* a plausible slip: the boundaries taken only for what the user left out
with_mask_boundaries_unless_given(c, b) ==
    [c EXCEPT !.start = IF c.start = NotGiven THEN Given(b.ind_start) ELSE c.start,
              !.end = IF c.end = NotGiven THEN Given(b.ind_end) ELSE c.end,
              !.dim = Given(b.dim)]

\* line 55: self.start, self.end, self.dim = find_mask_boundaries(self.mask)
with_mask_boundaries(c, b) ==
    [c EXCEPT !.start = Given(b.ind_start), !.end = Given(b.ind_end), !.dim = Given(b.dim)]

\* the -start, -end and -dim values isct_crop_image reads from the command
ran(cmd, flag) == cmd[CHOOSE k \in 1..Len(cmd) : cmd[k][1] = flag][2]

InitCrop ==
    /\ pc = "crop"
    /\ cropper \in Croppers
    /\ run_log = <<>>
    /\ NoSlice
    /\ NoRest
    /\ NoShape
    /\ properties = empty_properties
    /\ raw_properties = empty_properties
    /\ warnings = <<>>
    /\ exception = ""

\* lines 38-95: cropper.crop()
Crop ==
    /\ pc = "crop"
    /\ LET masked == cropper.mask # NotGiven
           found == IF masked THEN find_mask_boundaries(cropper.mask[1]) ELSE NotGiven
           ignored == masked /\ (cropper.start # NotGiven \/ cropper.end # NotGiven)
       IN  /\ warnings' = IF ignored THEN Append(warnings, "-start and -end") ELSE warnings
           /\ IF masked /\ found = ValueError
              THEN /\ pc' = "raised"
                   /\ exception' = "ValueError"
                   /\ cropper' = [cropper EXCEPT !.cmd = Given(base_command)]
                   /\ UNCHANGED run_log
              ELSE LET self == IF masked THEN with_mask_boundaries(cropper, found)
                               ELSE cropper
                       cmd == command(self)
                   IN  /\ IF masked /\ self.background # NotGiven
                          THEN /\ cropper' =
                                    [self EXCEPT
                                       !.cmd = Given(cmd),
                                       !.result = Given(crop_from_mask_with_background(
                                                     input_image, self.mask[1],
                                                     self.background[1]))]
                               /\ UNCHANGED run_log
                          ELSE /\ cropper' =
                                    [self EXCEPT
                                       !.cmd = Given(cmd),
                                       !.result = Given(isct_crop_image(
                                                     input_image, ran(cmd, "-start"),
                                                     ran(cmd, "-end"), ran(cmd, "-dim")))]
                               /\ run_log' = Append(run_log, cmd)
                       /\ pc' = "cropped"
                       /\ UNCHANGED exception
    /\ UNCHANGED <<resolution, fname_discs, smooth_factor, number_of_points, index,
                   current_patch, sc_properties, properties, raw_properties, sampled,
                   sorting_values, averaged_shape, result, centerline_request,
                   slice, set_args, shapeExtra, restVars>>

NextCrop == Crop

SpecCrop == InitCrop /\ [][NextCrop]_vars


-----------------------------------------------------------------------------
(* Properties of the cropper                                               *)

Cropped == pc = "cropped"

\* the extent of the mask's non-zero bounding box along dimension d
BoxExtent(data, d) == SetMax(nonzero(data, d)) - SetMin(nonzero(data, d)) + 1

\* C16: cropping around a mask, with no background, gives an image whose
\* size in every dimension is the extent of the mask's non-zero bounding
\* box, crop() having passed the per-dimension minimum and maximum non-zero
\* indices as start and end for all dimensions; and cropping one dimension
\* between start and end gives end - start + 1 voxels along it and leaves
\* the other dimensions' sizes as they were.
C16_CropAroundMask ==
    Cropped =>
        /\ (cropper.mask # NotGiven /\ cropper.background = NotGiven) =>
              /\ run_log = <<cropper.cmd[1]>>
              /\ \A d \in 1..Len(image_shape) :
                   /\ ran(run_log[1], "-start")[d] = SetMin(nonzero(cropper.mask[1], d))
                   /\ ran(run_log[1], "-end")[d] = SetMax(nonzero(cropper.mask[1], d))
                   /\ ran(run_log[1], "-dim")[d] = d - 1
                   /\ cropper.result[1].shape[d] = BoxExtent(cropper.mask[1], d)
        /\ cropper.mask = NotGiven =>
              \A d \in 1..Len(image_shape) :
                  cropper.result[1].shape[d] =
                      IF cropper.dim[1][1] = d - 1
                      THEN cropper.end[1][1] - cropper.start[1][1] + 1
                      ELSE image_shape[d]


\* crop() was called on a cropper holding both a mask and a background
MaskAndBackground ==
    /\ pc \in {"cropped", "raised"}
    /\ cropper.mask # NotGiven
    /\ cropper.background # NotGiven

\* the output is the input inside the mask and the background outside it
MaskedWithBackground(out, data_mask, background) ==
    /\ out.shape = input_image.shape
    /\ DOMAIN out.data = DOMAIN input_image.data
    /\ \A v \in DOMAIN out.data :
         out.data[v] = IF data_mask[v] = 1 THEN input_image.data[v] ELSE background

\* C17: when both a mask and a background are set, crop() runs no external
\* command and calls crop_from_mask_with_background: the output has the
\* input's shape, and for a binary mask every voxel inside the mask keeps
\* its input value and every voxel outside it is the background value.
C17_MaskWithBackground ==
    MaskAndBackground =>
        /\ run_log = <<>>
        /\ pc = "cropped"
        /\ cropper.result # NotGiven
        /\ MaskedWithBackground(cropper.result[1], cropper.mask[1], cropper.background[1])


-----------------------------------------------------------------------------
(* msct_gmseg_utils_NEW.py: Slice.__init__ and Slice.set.  Python values   *)
(* are tokens: "None", the falsy "0" and "[]", and other values.           *)

PyNone == "None"

\* the parameters of __init__ and set, and the attribute each one is stored in
slice_params ==
    <<"slice_id", "im", "gm_seg", "wm_seg", "reg_to_m", "im_m", "gm_seg_m", "wm_seg_m", "level">>

slice_fields ==
    <<"id", "im", "gm_seg", "wm_seg", "reg_to_M", "im_M", "gm_seg_M", "wm_seg_M", "level">>

ParamNames == {slice_params[k] : k \in 1..Len(slice_params)}

\* lines 33-54: Slice(...)
Slice(args) ==
    [id |-> args.slice_id, im |-> args.im, gm_seg |-> args.gm_seg, wm_seg |-> args.wm_seg,
     reg_to_M |-> args.reg_to_m, im_M |-> args.im_m, gm_seg_M |-> args.gm_seg_m,
     wm_seg_M |-> args.wm_seg_m, level |-> args.level]

\* a plausible slip: "if x:" in place of "if x is not None:"
set_if_truthy(self, args) ==
    LET given(x) == x \notin {PyNone, "0", "[]"}
    IN  [id |-> IF given(args.slice_id) THEN args.slice_id ELSE self.id,
         im |-> IF given(args.im) THEN args.im ELSE self.im,
         gm_seg |-> IF given(args.gm_seg) THEN args.gm_seg ELSE self.gm_seg,
         wm_seg |-> IF given(args.wm_seg) THEN args.wm_seg ELSE self.wm_seg,
         reg_to_M |-> IF given(args.reg_to_m) THEN args.reg_to_m ELSE self.reg_to_M,
         im_M |-> IF given(args.im_m) THEN args.im_m ELSE self.im_M,
         gm_seg_M |-> IF given(args.gm_seg_m) THEN args.gm_seg_m ELSE self.gm_seg_M,
         wm_seg_M |-> IF given(args.wm_seg_m) THEN args.wm_seg_m ELSE self.wm_seg_M,
         level |-> IF given(args.level) THEN args.level ELSE self.level]

\* lines 56-86: Slice.set(...)
set(self, args) ==
    [id |-> IF args.slice_id # PyNone THEN args.slice_id ELSE self.id,
     im |-> IF args.im # PyNone THEN args.im ELSE self.im,
     gm_seg |-> IF args.gm_seg # PyNone THEN args.gm_seg ELSE self.gm_seg,
     wm_seg |-> IF args.wm_seg # PyNone THEN args.wm_seg ELSE self.wm_seg,
     reg_to_M |-> IF args.reg_to_m # PyNone THEN args.reg_to_m ELSE self.reg_to_M,
     im_M |-> IF args.im_m # PyNone THEN args.im_m ELSE self.im_M,
     gm_seg_M |-> IF args.gm_seg_m # PyNone THEN args.gm_seg_m ELSE self.gm_seg_M,
     wm_seg_M |-> IF args.wm_seg_m # PyNone THEN args.wm_seg_m ELSE self.wm_seg_M,
     level |-> IF args.level # PyNone THEN args.level ELSE self.level]

\* the falsy value of a parameter's type: an empty list for the list-valued
\* segmentations, 0 otherwise
Falsy(param) == IF param \in {"gm_seg", "wm_seg"} THEN "[]" ELSE "0"

\* every parameter omitted, falsy, or another value
SetArguments ==
    {args \in [ParamNames -> {PyNone, "0", "[]", "new"}] :
        \A p \in ParamNames : args[p] \in {PyNone, Falsy(p), "new"}}

\* Slice() and a Slice constructed with every attribute given
InitSlice ==
    /\ pc = "slice"
    /\ slice \in {Slice([p \in ParamNames |-> PyNone]), Slice([p \in ParamNames |-> "old"])}
    /\ set_args = <<>>
    /\ NoCropper
    /\ NoRest
    /\ NoShape
    /\ properties = empty_properties
    /\ raw_properties = empty_properties
    /\ warnings = <<>>
    /\ exception = ""

\* slice.set(...)
SetCall ==
    /\ pc = "slice"
    /\ \E args \in SetArguments :
         /\ set_args' = args
         /\ slice' = set(slice, args)
    /\ pc' = "set"
    /\ UNCHANGED <<resolution, fname_discs, smooth_factor, number_of_points, index,
                   current_patch, sc_properties, properties, raw_properties, sampled,
                   warnings, sorting_values, averaged_shape, result, exception,
                   centerline_request, cropper, run_log, shapeExtra, restVars>>

NextSlice == SetCall

SpecSlice == InitSlice /\ [][NextSlice]_vars

\* C18: a call of set gives every one of the nine fields whose argument is
\* given (not None) the given value, a falsy one such as 0 or an empty list
\* included, and leaves every field whose argument is omitted as it was.
C18_SetOnlySpecified ==
    [][pc = "slice" =>
          \A k \in 1..Len(slice_fields) :
              slice'[slice_fields[k]] =
                  IF set_args'[slice_params[k]] # PyNone
                  THEN set_args'[slice_params[k]]
                  ELSE slice[slice_fields[k]]]_vars

\* level set to 0, gm_seg to an empty list, id to a new value, im left alone
C18_Witness ==
    /\ pc = "set"
    /\ set_args.level = "0" /\ slice.level = "0"
    /\ set_args.gm_seg = "[]" /\ slice.gm_seg = "[]"
    /\ set_args.slice_id = "new" /\ slice.id = "new"
    /\ set_args.im = PyNone /\ slice.im = "old"
    /\ set_args.reg_to_m = PyNone /\ slice.reg_to_M = "old"


\* the number of samples of the window built for the smoothing step
WindowSamples == Len(hann(window_length(smooth_factor, number_of_points)))

\* C19: for a nonzero smooth_factor the smoothing window has at least 1
\* sample and at most as many as the series it smooths (the number of
\* successfully sampled points): it is never empty, so the smoothing step
\* does not fail on a centerline with points, and never longer than the series.
C19_WindowClamped ==
    /\ Smoothed =>
          /\ 1 <= WindowSamples
          /\ WindowSamples <= Len(raw_properties["z_slice"])
          /\ WindowSamples <= Len(sampled)
    /\ (pc = "raised" /\ number_of_points > 0) => exception # "ValueError"


-----------------------------------------------------------------------------
(* Properties of the order of sampling (lines 188-195 and 217-255)         *)

\* the entries appended so far come from increasing centerline indices, and
\* the incremental_length series is the centerline's, read at those indices
InCenterlineOrder ==
    /\ \A j, k \in 1..Len(sampled) : j < k => sampled[j] < sampled[k]
    /\ Len(properties["incremental_length"]) = Len(sampled)
    /\ \A k \in 1..Len(sampled) :
         properties["incremental_length"][k] = incremental_length(sampled[k])

\* the indices 0 .. index-1, and no other, have been processed, once each
ProcessedUpTo(n) ==
    /\ index = n
    /\ Len(sampled) + Len(warnings) = n
    /\ \A k \in 1..Len(sampled) : sampled[k] < n

\* C20: a centerline of 5 * nz points is requested, and the sampling loop
\* processes every centerline index 0 .. number_of_points-1 once, in
\* increasing order: when the loop is over all of them have been processed,
\* the entries of the series are in increasing centerline-index order, and
\* incremental_length is an order-preserving subsequence of the centerline's.
C20_SamplingOrder ==
    /\ centerline_request.nurbs_pts_number = 5 * centerline_request.nz
    /\ InCenterlineOrder
    /\ pc = "loop" => (index <= number_of_points /\ ProcessedUpTo(index))
    /\ pc # "loop" => ProcessedUpTo(number_of_points)


-----------------------------------------------------------------------------
(* Properties of the parallel series (lines 243-250)                       *)

\* every entry of the companion series was read at the centerline index its
\* position was sampled at, and the disc series have entries only with discs
AlignedWithSampled ==
    /\ Len(properties["incremental_length"]) = Len(sampled)
    /\ Len(properties["z_slice"]) = Len(sampled)
    /\ \A k \in 1..Len(property_list) : Len(properties[property_list[k]]) = Len(sampled)
    /\ \A k \in 1..Len(sampled) :
         properties["incremental_length"][k] = incremental_length(sampled[k])
    /\ IF fname_discs
       THEN /\ Len(properties["distance_from_C1"]) = Len(sampled)
            /\ Len(properties["vertebral_level"]) = Len(sampled)
            /\ \A k \in 1..Len(sampled) :
                 /\ properties["distance_from_C1"][k] = dist_points(sampled[k])
                 /\ properties["vertebral_level"][k] = l_points(sampled[k])
       ELSE /\ properties["distance_from_C1"] = <<>>
            /\ properties["vertebral_level"] = <<>>

\* the step is an iteration of the sampling loop that found a region
SampledStep ==
    /\ pc = "loop" /\ index < number_of_points
    /\ pc' = "loop" /\ sc_properties' # None

\* the step appends, to every series, the entry computed at the current index
AppendsCurrentIndex ==
    /\ sampled' = Append(sampled, index)
    /\ \A k \in 1..Len(property_list) :
         properties'[property_list[k]] =
             Append(properties[property_list[k]], sc_properties'[property_list[k]])
    /\ properties'["incremental_length"] =
           Append(properties["incremental_length"], incremental_length(index))
    /\ properties'["z_slice"] = Append(properties["z_slice"], current_z')
    /\ IF fname_discs
       THEN /\ properties'["distance_from_C1"] =
                   Append(properties["distance_from_C1"], dist_points(index))
            /\ properties'["vertebral_level"] =
                   Append(properties["vertebral_level"], l_points(index))
       ELSE /\ properties'["distance_from_C1"] = properties["distance_from_C1"]
            /\ properties'["vertebral_level"] = properties["vertebral_level"]

\* C21: at every position the entries of the nine property series, of
\* incremental_length and of z_slice, and with disc landmarks also of
\* distance_from_C1 and vertebral_level, come from the same centerline index;
\* the two disc series get an entry in an iteration if and only if disc
\* landmarks were given and the point was sampled.
C21_ParallelAlignment ==
    [][/\ AlignedWithSampled'
       /\ pc = "loop" =>
             IF SampledStep
             THEN AppendsCurrentIndex
             ELSE /\ properties'["distance_from_C1"] = properties["distance_from_C1"]
                  /\ properties'["vertebral_level"] = properties["vertebral_level"]]_vars

\* three points sampled with disc landmarks, at three different z slices
C21_Witness ==
    /\ fname_discs
    /\ sampled = <<0, 1, 2>>
    /\ properties["z_slice"] = <<5, 6, 7>>
    /\ properties["distance_from_C1"] = <<Num(10), Num(9), Num(8)>>
    /\ properties["vertebral_level"] = <<0, 0, 1>>
    /\ properties["area"][1] # properties["area"][2]


-----------------------------------------------------------------------------
(* The sampling loop (lines 217-255) with its iterations taken apart:      *)
(* every centerline point is worked on its own, in any order, and the      *)
(* results are put together by index.                                      *)

\* the data of the centerline points: the patch extracted at each index and
\* the voxel z of the point
PointInputs(n) == [1..n -> [patch : LoopPatches, z : ZSlices]]

\* nothing computed yet for a point
Pending == <<>>

\* a plausible slip: the companion values read at a position counted over the
\* points finished so far, a counter the iterations share
point_result_counted(inputs, i, discs) ==
    LET patch == inputs[i + 1].patch
        done == Cardinality({k \in 1..Len(point_results) : point_results[k] # Pending})
        extracted == properties2d(patch, patch_resolution,
                                  CHOOSE ix \in argsort(areas_of(patch)) : TRUE)
        assigned == IF extracted = RuntimeError THEN RuntimeError
                    ELSE assign_AP_and_RL_diameter(extracted)
    IN  IF assigned \in {TypeError, RuntimeError}
        THEN assigned
        ELSE [sc_properties |-> assigned,
              incremental_length |-> incremental_length(done),
              distance_from_C1 |-> IF discs THEN <<dist_points(done)>> ELSE <<>>,
              vertebral_level |-> IF discs THEN <<l_points(done)>> ELSE <<>>,
              z_slice |-> inputs[i + 1].z]

\* lines 222-250: what one iteration computes for centerline index i, from
\* the patch at i and the centerline data at i
point_result(inputs, i, discs) ==
    LET patch == inputs[i + 1].patch
        extracted == properties2d(patch, patch_resolution,
                                  CHOOSE ix \in argsort(areas_of(patch)) : TRUE)
        assigned == IF extracted = RuntimeError THEN RuntimeError
                    ELSE assign_AP_and_RL_diameter(extracted)
    IN  IF assigned \in {TypeError, RuntimeError}
        THEN assigned
        ELSE [sc_properties |-> assigned,
              incremental_length |-> incremental_length(i),
              distance_from_C1 |-> IF discs THEN <<dist_points(i)>> ELSE <<>>,
              vertebral_level |-> IF discs THEN <<l_points(i)>> ELSE <<>>,
              z_slice |-> inputs[i + 1].z]

\* lines 243-250 on a result computed apart: the appends to the series
append_result(props, r) ==
    IF r.sc_properties = None THEN props
    ELSE [name \in DOMAIN props |->
            IF name = "incremental_length" THEN Append(props[name], r.incremental_length)
            ELSE IF name = "distance_from_C1" THEN props[name] \o r.distance_from_C1
            ELSE IF name = "vertebral_level" THEN props[name] \o r.vertebral_level
            ELSE IF name = "z_slice" THEN Append(props[name], r.z_slice)
            ELSE Append(props[name], r.sc_properties[name])]

\* the results put together in index order, up to the first n of them; an
\* exception of an iteration ends the loop there
RECURSIVE merge_by_index(_, _)
merge_by_index(results, n) ==
    IF n = 0 THEN [properties |-> empty_properties, exception |-> ""]
    ELSE LET before == merge_by_index(results, n - 1)
             r == results[n][1]
         IN  IF before.exception # "" THEN before
             ELSE IF r \in {TypeError, RuntimeError}
                  THEN [properties |-> before.properties, exception |-> r.raised]
             ELSE [properties |-> append_result(before.properties, r), exception |-> ""]

\* lines 220-255 as written: the iterations one after the other, over the
\* first n points
RECURSIVE sequential_loop(_, _, _)
sequential_loop(inputs, n, discs) ==
    IF n = 0 THEN [properties |-> empty_properties, exception |-> ""]
    ELSE LET before == sequential_loop(inputs, n - 1, discs)
             patch == inputs[n].patch
             extracted == properties2d(patch, patch_resolution,
                                       CHOOSE ix \in argsort(areas_of(patch)) : TRUE)
             assigned == IF extracted = RuntimeError THEN RuntimeError
                         ELSE assign_AP_and_RL_diameter(extracted)
         IN  IF before.exception # "" THEN before
             ELSE IF assigned \in {TypeError, RuntimeError}
                  THEN [properties |-> before.properties, exception |-> assigned.raised]
             ELSE IF assigned = None THEN before
             ELSE [properties |-> append_point(before.properties, assigned, n - 1,
                                               inputs[n].z, discs),
                   exception |-> ""]

InitParallel ==
    /\ pc = "workers"
    /\ fname_discs \in BOOLEAN
    /\ number_of_points \in 1..MaxPoints
    /\ point_inputs \in PointInputs(number_of_points)
    /\ point_results = [k \in 1..number_of_points |-> Pending]
    /\ properties = empty_properties
    /\ raw_properties = empty_properties
    /\ warnings = <<>>
    /\ exception = ""
    /\ smooth_factor = Num(0)
    /\ index = 0
    /\ current_patch = <<>>
    /\ resolution = patch_resolution
    /\ sc_properties = None
    /\ sampled = <<>>
    /\ sorting_values = <<>>
    /\ averaged_shape = <<>>
    /\ result = NoResult
    /\ centerline_request = <<>>
    /\ current_z = <<>>
    /\ coordinates_grid_image = <<>>
    /\ os_state = <<>>
    /\ NoCropper /\ NoSlice
    /\ arguments = <<>>
    /\ im_level = <<>>
    /\ list_slices_target = <<>>

\* one iteration of the loop, for any point not yet worked on
PointWorker ==
    /\ pc = "workers"
    /\ \E i \in 0..(number_of_points - 1) :
         /\ point_results[i + 1] = Pending
         /\ point_results' =
               [point_results EXCEPT ![i + 1] = <<point_result(point_inputs, i, fname_discs)>>]
    /\ UNCHANGED <<pc, resolution, fname_discs, smooth_factor, number_of_points, index,
                   current_patch, sc_properties, properties, raw_properties, sampled,
                   warnings, sorting_values, averaged_shape, result, exception,
                   centerline_request, shapeExtra, cropper, run_log, slice, set_args,
                   arguments, point_inputs, im_level, list_slices_target>>

\* all points worked on: the results are put together by index, then
\* averaged as at lines 295-306 (no smoothing asked)
MergeResults ==
    /\ pc = "workers"
    /\ \A k \in 1..number_of_points : point_results[k] # Pending
    /\ LET merged == merge_by_index(point_results, number_of_points)
       IN  /\ properties' = merged.properties
           /\ exception' = merged.exception
           /\ pc' = IF merged.exception # "" THEN "raised" ELSE "merged"
           /\ sorting_values' = IF merged.exception # "" THEN sorting_values
                                ELSE distinct_labels(merged.properties["z_slice"])
           /\ averaged_shape' = IF merged.exception # "" THEN averaged_shape
                                ELSE average_properties(merged.properties, sorting_values')
    /\ UNCHANGED <<resolution, fname_discs, smooth_factor, number_of_points, index,
                   current_patch, sc_properties, raw_properties, sampled,
                   warnings, result, centerline_request, shapeExtra, otherVars>>

NextParallel == PointWorker \/ MergeResults

SpecParallel == InitParallel /\ [][NextParallel]_vars

\* C22: whatever the order in which the points were worked on, the results
\* put together by index are the series (or the exception) of the sequential
\* loop over the same points, and so is the averaged shape.
C22_OrderIndependent ==
    pc \in {"merged", "raised"} =>
        LET seq == sequential_loop(point_inputs, number_of_points, fname_discs)
        IN  /\ properties = seq.properties
            /\ exception = seq.exception
            /\ pc = "merged" =>
                  averaged_shape = average_properties(seq.properties,
                                       distinct_labels(seq.properties["z_slice"]))

\* three points with different patches and z, merged with disc landmarks
C22_Witness ==
    /\ pc = "merged"
    /\ fname_discs
    /\ number_of_points = 3
    /\ point_inputs[1].patch # point_inputs[2].patch
    /\ Len(properties["area"]) = 3
    /\ properties["distance_from_C1"] = <<Num(10), Num(9), Num(8)>>


-----------------------------------------------------------------------------
(* Properties of the symmetry grid (lines 73-82)                           *)

\* a region was resampled on a grid of more than one row
Resampled == pc \in {"assign", "assigned"} /\ Len(coordinates_grid_image) > 1

\* C23: the symmetry grid is the square of offsets (gx, gy) rotated by the
\* region's orientation about the centroid: different offsets are resampled
\* at different positions, and for orientation 0 the offset (gx, gy) is
\* resampled at centroid + (gx, gy).
C23_GridRotated ==
    Resampled =>
        /\ \A i, j \in 1..Len(coordinates_grid_image) :
             coordinates_grid_image[i].offset # coordinates_grid_image[j].offset
                 => coordinates_grid_image[i].position # coordinates_grid_image[j].position
        /\ sc_properties["orientation"] = Num(0) =>
             \A i \in 1..Len(coordinates_grid_image) :
                LET g == coordinates_grid_image[i]
                    r == current_patch[1]
                IN  g.position = <<<<RatAdd(centroid(r)[2], g.offset[1]), Num(0)>>,
                                   <<RatAdd(centroid(r)[1], g.offset[2]), Num(0)>>>>

\* what the code does at orientation 0: every gy lands on the centroid row
C23_CollapsedAtZero ==
    Resampled /\ sc_properties["orientation"] = Num(0) =>
        \A i \in 1..Len(coordinates_grid_image) :
            LET g == coordinates_grid_image[i]
            IN  g.position = <<<<RatAdd(centroid(current_patch[1])[2], g.offset[1]), Num(0)>>,
                               <<centroid(current_patch[1])[1], Num(0)>>>>


-----------------------------------------------------------------------------
(* Frame of assign_AP_and_RL_diameter (lines 121-134)                      *)

-----------------------------------------------------------------------------
(* Mask boundaries override start and end (cropping.py lines 50-62)        *)

\* crop() is about to run on a cropper holding a mask
CropWithMask == pc = "crop" /\ cropper.mask # NotGiven

\* C25: with a mask, crop() replaces start, end and dim by the mask's
\* boundaries over all dimensions (start[i] <= end[i], dim = 0..n-1) before
\* it builds the command, so that start and end values given by the user
\* never reach the command; the warning that they are ignored is logged if
\* and only if start or end was given.
C25_MaskOverridesStartEnd ==
    [][CropWithMask =>
          /\ (warnings' = Append(warnings, "-start and -end"))
                <=> (cropper.start # NotGiven \/ cropper.end # NotGiven)
          /\ warnings' # warnings => warnings' = Append(warnings, "-start and -end")
          /\ pc' = "raised" => cropper'.cmd = Given(base_command)
          /\ pc' = "cropped" =>
                LET n == Len(image_shape)
                    lo == [d \in 1..n |-> SetMin(nonzero(cropper.mask[1], d))]
                    hi == [d \in 1..n |-> SetMax(nonzero(cropper.mask[1], d))]
                IN  /\ cropper'.start = Given(lo)
                    /\ cropper'.end = Given(hi)
                    /\ cropper'.dim = Given([d \in 1..n |-> d - 1])
                    /\ \A d \in 1..n : lo[d] <= hi[d]
                    /\ ran(cropper'.cmd[1], "-start") = lo
                    /\ ran(cropper'.cmd[1], "-end") = hi
                    /\ ran(cropper'.cmd[1], "-dim") = [d \in 1..n |-> d - 1]]_vars

\* cropped around a mask whose boundaries are not the start or end the user
\* gave, which was ignored with a warning
C25_Witness ==
    /\ pc = "cropped"
    /\ cropper.mask # NotGiven
    /\ warnings = <<"-start and -end">>
    /\ cropper.start[1] # cropper.end[1]
    /\ cropper.start[1] # <<1, 1>>
    /\ cropper.end[1] # <<1, 1>>
    /\ run_log = <<cropper.cmd[1]>>


-----------------------------------------------------------------------------
(* msct_gmseg_utils_NEW.py: load_level with a level image (lines 237-267   *)
(* and 300-304).  A Python number is kept with its type.                   *)

PyInt(n) == [type |-> "int", value |-> Num(n)]

PyFloat(q) == [type |-> "float", value |-> q]

NoLevel == [type |-> "NoneType", value |-> NaN]

\* the labels of the voxels of a slice of the level image
LevelLabels == 0..2

LevelSlices == [1..2 -> LevelLabels]

RECURSIVE SumLabels(_)
SumLabels(a) == IF a = <<>> THEN 0 ELSE Head(a) + SumLabels(Tail(a))

\* slice_level[slice_level > 0]
positive(slice_level) == SelectSeq(slice_level, LAMBDA v : v > 0)

\* np.mean: nan (and a RuntimeWarning, no exception) on an empty array
np_mean(a) == Rat(SumLabels(a), Len(a))

\* the array in ascending order
sorted(a) ==
    CHOOSE s \in [1..Len(a) -> LevelLabels] :
        /\ \A i \in 1..(Len(a) - 1) : s[i] <= s[i + 1]
        /\ \A v \in LevelLabels :
             Cardinality({i \in 1..Len(a) : s[i] = v}) = Cardinality({i \in 1..Len(a) : a[i] = v})

\* np.median: the middle value, or the mean of the two middle values; nan on
\* an empty array
np_median(a) ==
    LET n == Len(a)
        s == sorted(a)
    IN  IF n = 0 THEN NaN
        ELSE IF n % 2 = 1 THEN Num(s[(n + 1) \div 2])
        ELSE Rat(s[n \div 2] + s[n \div 2 + 1], 2)

\* round(x) of Python 2 for x >= 0: halves go away from zero
round(q) == (2 * q[1] + q[2]) \div (2 * q[2])

\* lines 250-260: the level and the median of one slice; int(nan) raises
\* ValueError, which the except clause turns into a warning and 0, 0
slice_level_and_median(slice_level) ==
    LET l == np_mean(positive(slice_level))
        med == np_median(positive(slice_level))
    IN  IF IsNaN(med)
        THEN [l |-> PyInt(0), med |-> PyInt(0), warned |-> TRUE]
        ELSE [l |-> PyFloat(l),
              med |-> IF med[2] = 1 THEN PyInt(med[1]) ELSE PyFloat(med),
              warned |-> FALSE]

\* a plausible repair: the slices without a label kept at 0 when the levels
\* are placed in the middle of the vertebrae
list_level_keeping_zero(data) ==
    LET per_slice == [k \in 1..Len(data) |-> slice_level_and_median(data[k])]
    IN  IF \A k \in 1..Len(data) : per_slice[k].med.type = "int"
        THEN [k \in 1..Len(data) |->
                 IF per_slice[k].warned THEN PyInt(0)
                 ELSE PyFloat(RatAdd(Num(round(per_slice[k].l.value)), Rat(1, 2)))]
        ELSE [k \in 1..Len(data) |-> per_slice[k].l]

\* lines 247-267: list_level for a level image
list_level_of(data) ==
    LET per_slice == [k \in 1..Len(data) |-> slice_level_and_median(data[k])]
    IN  IF \A k \in 1..Len(data) : per_slice[k].med.type = "int"
        THEN [k \in 1..Len(data) |->
                 PyFloat(RatAdd(Num(round(per_slice[k].l.value)), Rat(1, 2)))]
        ELSE [k \in 1..Len(data) |-> per_slice[k].l]

\* a target Slice, of which load_level touches the level only
TargetSlice(id) == [id |-> id, level |-> NoLevel]

\* target_slice.set(level=level): a level that is not None is stored
set_level(target_slice, level) ==
    IF level # NoLevel THEN [target_slice EXCEPT !.level = level] ELSE target_slice

InitLevel ==
    /\ pc = "load_level"
    /\ \E n \in 1..MaxLevelSlices :
         /\ im_level \in [1..n -> LevelSlices]
         /\ list_slices_target = [k \in 1..n |-> TargetSlice(k)]
    /\ warnings = <<>>
    /\ properties = empty_properties
    /\ raw_properties = empty_properties
    /\ exception = ""
    /\ NoShape
    /\ NoCropper /\ NoSlice
    /\ arguments = <<>>
    /\ point_inputs = <<>>
    /\ point_results = <<>>

\* load_level(list_slices_target, fname_level) for a .nii or .nii.gz file
LoadLevel ==
    /\ pc = "load_level"
    /\ LET list_level == list_level_of(im_level)
           n == IF Len(list_level) < Len(list_slices_target)
                THEN Len(list_level) ELSE Len(list_slices_target)
       IN  /\ warnings' = SelectSeq([k \in 1..Len(im_level) |-> k],
                                    LAMBDA k : slice_level_and_median(im_level[k]).warned)
           /\ list_slices_target' =
                 [k \in 1..Len(list_slices_target) |->
                     IF k <= n THEN set_level(list_slices_target[k], list_level[k])
                     ELSE list_slices_target[k]]
    /\ pc' = "loaded"
    /\ UNCHANGED <<resolution, fname_discs, smooth_factor, number_of_points, index,
                   current_patch, sc_properties, properties, raw_properties, sampled,
                   sorting_values, averaged_shape, result, exception, centerline_request,
                   shapeExtra, cropper, run_log, slice, set_args, arguments, point_inputs,
                   point_results, im_level>>

NextLevel == LoadLevel

SpecLevel == InitLevel /\ [][NextLevel]_vars

\* the slices of the level image that hold no positive label
Unlabelled == {k \in 1..Len(im_level) : positive(im_level[k]) = <<>>}

\* C26: loading the levels from a level image, every slice that holds no
\* positive label is reported with a warning and its target Slice ends with
\* level 0, whatever the labels of the other slices.
C26_UnlabelledSliceLevelZero ==
    pc = "loaded" =>
        \A k \in Unlabelled :
            /\ \E w \in 1..Len(warnings) : warnings[w] = k
            /\ list_slices_target[k].level.value = Num(0)

\* what the code does: an unlabelled slice ends at 0.5 when every median is
\* whole, and at 0 only when some other slice has a fractional median
C26_UnlabelledSliceLevelHalf ==
    pc = "loaded" =>
        \A k \in Unlabelled :
            /\ \E w \in 1..Len(warnings) : warnings[w] = k
            /\ list_slices_target[k].level =
                  IF \A j \in 1..Len(im_level) :
                        slice_level_and_median(im_level[j]).med.type = "int"
                  THEN PyFloat(Rat(1, 2))
                  ELSE PyInt(0)


-----------------------------------------------------------------------------
(* sct_crop_image.py: main (lines 128-176), cropping from the command line *)

\* a comma-separated argument such as "40,30", known by its items
CommaList(items) == [items |-> items]

\* str.split(","): the list of the items
split(s) == s.items

\* None has no split
AttributeError == [raised |-> "AttributeError"]

\* the masks named by -m: the whole image, and the voxel (1, 1) alone
MainMasks ==
    {[v \in Voxels |-> 1], [v \in Voxels |-> IF v = <<1, 1>> THEN 1 ELSE 0]}

\* parser.parse_args: every option is None unless it is given
Arguments ==
    [m : {NotGiven} \cup {Given(x) : x \in MainMasks},
     start : {NotGiven, Given(CommaList(<<0>>))},
     end : {NotGiven, Given(CommaList(<<1>>))},
     dim : {NotGiven, Given(CommaList(<<0>>))},
     shift : {NotGiven, Given(CommaList(<<1>>))},
     b : {NotGiven, Given(7)},
     bmax : {NotGiven, Given("")},
     ref : {NotGiven, Given("ref.nii.gz")},
     mesh : {NotGiven, Given("mesh.vtk")}]

\* a plausible repair: cropper.end set when -end is given
forward_arguments_end_tested(args) ==
    LET list(x) == IF x = NotGiven THEN NotGiven ELSE Given(split(x[1]))
        c == ImageCropper(args.m, list(args.start), list(args.end), list(args.dim), args.b)
    IN  [c EXCEPT !.shift = list(args.shift), !.bmax = (args.bmax # NotGiven),
                  !.ref = args.ref, !.mesh = args.mesh]

\* lines 141 and 157-174: the cropper after the options are handed over, or
\* the exception raised on the way; line 161 tests arguments.start before it
\* splits arguments.end
forward_arguments(args) ==
    LET list(x) == IF x = NotGiven THEN NotGiven ELSE Given(split(x[1]))
        c == ImageCropper(args.m, list(args.start), NotGiven, NotGiven, NotGiven)
    IN  IF args.start # NotGiven /\ args.end = NotGiven
        THEN AttributeError
        ELSE [c EXCEPT !.end = IF args.start # NotGiven THEN list(args.end) ELSE NotGiven,
                       !.dim = list(args.dim), !.shift = list(args.shift),
                       !.background = args.b, !.bmax = (args.bmax # NotGiven),
                       !.ref = args.ref, !.mesh = args.mesh]

InitMain ==
    /\ pc = "main"
    /\ arguments \in Arguments
    /\ NoCropper
    /\ NoSlice
    /\ NoShape
    /\ properties = empty_properties
    /\ raw_properties = empty_properties
    /\ warnings = <<>>
    /\ exception = ""
    /\ point_inputs = <<>>
    /\ point_results = <<>>
    /\ im_level = <<>>
    /\ list_slices_target = <<>>

\* lines 139-174: main up to the call of cropper.crop()
Main ==
    /\ pc = "main"
    /\ LET forwarded == forward_arguments(arguments)
       IN  IF forwarded = AttributeError
           THEN /\ pc' = "raised"
                /\ exception' = "AttributeError"
                /\ cropper' = ImageCropper(arguments.m, Given(split(arguments.start[1])),
                                           NotGiven, NotGiven, NotGiven)
           ELSE /\ pc' = "crop"
                /\ cropper' = forwarded
                /\ UNCHANGED exception
    /\ UNCHANGED <<resolution, fname_discs, smooth_factor, number_of_points, index,
                   current_patch, sc_properties, properties, raw_properties, sampled,
                   warnings, sorting_values, averaged_shape, result, centerline_request,
                   run_log, slice, set_args, shapeExtra, restVars>>

\* line 176: cropper.crop(), where the command's answer is known: around a
\* mask, or between start and end along dim, with no other option in the way
MainCrop ==
    /\ pc = "crop"
    /\ \/ cropper.mask # NotGiven /\ cropper.background # NotGiven
       \/ /\ cropper.mask # NotGiven
             \/ (cropper.start # NotGiven /\ cropper.end # NotGiven /\ cropper.dim # NotGiven)
          /\ cropper.shift = NotGiven /\ ~cropper.bmax
          /\ cropper.ref = NotGiven /\ cropper.mesh = NotGiven
    /\ Crop

NextMain == Main \/ MainCrop

SpecMain == InitMain /\ [][NextMain]_vars

\* C27: main hands each of -m, -start, -end, -dim, -shift, -b, -ref and
\* -mesh over to the cropper if and only if it was given; in particular
\* cropper.end is set whenever -end is given, whether or not -start is, and
\* main does not fail when only one of -start and -end is given.
C27_OptionsForwarded ==
    [][pc = "main" =>
          /\ pc' # "raised"
          /\ cropper'.mask = arguments.m
          /\ cropper'.start = (IF arguments.start = NotGiven THEN NotGiven
                               ELSE Given(split(arguments.start[1])))
          /\ cropper'.end = (IF arguments.end = NotGiven THEN NotGiven
                             ELSE Given(split(arguments.end[1])))
          /\ cropper'.dim = (IF arguments.dim = NotGiven THEN NotGiven
                             ELSE Given(split(arguments.dim[1])))
          /\ cropper'.shift = (IF arguments.shift = NotGiven THEN NotGiven
                               ELSE Given(split(arguments.shift[1])))
          /\ cropper'.background = arguments.b
          /\ cropper'.ref = arguments.ref
          /\ cropper'.mesh = arguments.mesh]_vars

\* what the code does: with -start, -end is needed and handed over; without
\* -start, -end is dropped
C27_EndFollowsStart ==
    [][pc = "main" =>
          /\ pc' = "raised" <=> (arguments.start # NotGiven /\ arguments.end = NotGiven)
          /\ pc' = "crop" =>
                cropper'.end = (IF arguments.start = NotGiven THEN NotGiven
                                ELSE Given(split(arguments.end[1])))]_vars


-----------------------------------------------------------------------------
(* Working directory and temporary folder (lines 158-166 and 308-313)      *)

\* C28: the function works inside its temporary folder; on every normal
\* return the working directory is the one in effect at the call and the
\* temporary folder is removed if and only if remove_temp_files is set; on
\* an aborting error the working directory stays the temporary folder.
C28_WorkingDirectory ==
    /\ pc = "call" => os_state.cwd = os_state.called_from /\ ~os_state.path_tmp_exists
    /\ pc \in {"loop", "smooth", "average", "return"} =>
          /\ os_state.cwd = os_state.path_tmp
          /\ os_state.cwd # os_state.called_from
          /\ os_state.path_tmp_exists
    /\ pc = "done" =>
          /\ os_state.cwd = os_state.called_from
          /\ os_state.path_tmp_exists <=> os_state.remove_temp_files = 0
    /\ pc = "raised" =>
          /\ os_state.cwd = os_state.path_tmp
          /\ os_state.path_tmp_exists

\* returned to /data with the temporary folder kept, after sampling points
C28_Witness ==
    /\ pc = "done"
    /\ os_state.remove_temp_files = 0
    /\ os_state.cwd = "/data"
    /\ os_state.path_tmp_exists
    /\ Len(sampled) >= 2

\* returned with the temporary folder removed
C28_ReturnedAndRemoved ==
    /\ pc = "done"
    /\ os_state.remove_temp_files = 1
    /\ ~os_state.path_tmp_exists

=============================================================================
